---- MODULE Spec2Model ----
(***************************************************************************)
(* prompt-analyzer: the recommendation pipeline of                         *)
(* src/prompt_analyzer/recommend/analyzer.py, the deeplink generator of    *)
(* src/prompt_analyzer/recommend/html_output.py and the hook installer of  *)
(* src/prompt_analyzer/hooks/installer.py.                                 *)
(*                                                                         *)
(* Text is a sequence of symbols.  A symbol is one JSON-significant        *)
(* character, or a run of letters that contains none of them ("result",    *)
(* "x", ...), which str.find, str.rfind, str.strip and the JSON scanner    *)
(* treat as a unit.  Python values are records [t, v]: None and JSON null  *)
(* are the same value, a dict is the sequence of its <<key, value>> pairs  *)
(* in insertion order.                                                     *)
(***************************************************************************)
EXTENDS Integers, Sequences, FiniteSets, TLC

VARIABLES pc, op, prompts, project_path, prompts_by_project, request,
          proc, spawns, agentCalls, returncode, stdout, fault, response, result,
          max_prompts, formatted, type, name, content, prompt_scope,
          hooks_dir, hooks_json, hook_script, overwrite, json_before, script_before

vars == <<pc, op, prompts, project_path, prompts_by_project, request,
          proc, spawns, agentCalls, returncode, stdout, fault, response, result,
          max_prompts, formatted, type, name, content, prompt_scope,
          hooks_dir, hooks_json, hook_script, overwrite, json_before, script_before>>

-----------------------------------------------------------------------------
(* Symbols *)

LBRACE == "{"
RBRACE == "}"
LBRACK == "["
RBRACK == "]"
COLON == ":"
COMMA == ","
QUOTE == "\""
BSLASH == "\\"
SPACE == " "
CR == "<CR>"
LF == "<LF>"
TAB == "<TAB>"

Digits == {"0", "1"}
Whitespace == {SPACE, CR, LF, TAB}

-----------------------------------------------------------------------------
(* Python values *)

NoneVal == [t |-> "null", v |-> <<>>]
Num(d) == [t |-> "num", v |-> d]
Str(s) == [t |-> "str", v |-> s]
List(items) == [t |-> "arr", v |-> items]
Dict(pairs) == [t |-> "obj", v |-> pairs]

IsDict(x) == x.t = "obj"
IsList(x) == x.t = "arr"
IsStr(x) == x.t = "str"

HasKey(d, k) == \E i \in 1..Len(d.v) : d.v[i][1] = k
GetKey(d, k) == d.v[CHOOSE i \in 1..Len(d.v) : d.v[i][1] = k][2]
DictGet(d, k, default) == IF HasKey(d, k) THEN GetKey(d, k) ELSE default
SetKey(d, k, x) ==
    IF HasKey(d, k)
    THEN Dict([i \in 1..Len(d.v) |-> IF d.v[i][1] = k THEN <<k, x>> ELSE d.v[i]])
    ELSE Dict(Append(d.v, <<k, x>>))

\* bool(x): None, 0, "", [] and {} are false
Truthy(x) ==
    CASE x.t = "null" -> FALSE
      [] x.t = "num" -> x.v # <<"0">>
      [] OTHER -> x.v # <<>>

-----------------------------------------------------------------------------
(* str.find, str.rfind, slicing and str.strip, with Python's 0-based indices *)

Find(s, c) ==
    IF \E i \in 1..Len(s) : s[i] = c
    THEN (CHOOSE i \in 1..Len(s) : s[i] = c /\ \A j \in 1..(i - 1) : s[j] # c) - 1
    ELSE -1

RFind(s, c) ==
    IF \E i \in 1..Len(s) : s[i] = c
    THEN (CHOOSE i \in 1..Len(s) : s[i] = c /\ \A j \in (i + 1)..Len(s) : s[j] # c) - 1
    ELSE -1

Slice(s, a, b) == SubSeq(s, a + 1, b)

RECURSIVE Strip(_)
Strip(s) ==
    IF s = <<>> THEN s
    ELSE IF Head(s) \in Whitespace THEN Strip(Tail(s))
    ELSE IF s[Len(s)] \in Whitespace THEN Strip(SubSeq(s, 1, Len(s) - 1))
    ELSE s

\* part in text
Occurs(part, text) ==
    \E i \in 0..(Len(text) - Len(part)) : SubSeq(text, i + 1, i + Len(part)) = part

-----------------------------------------------------------------------------
(* json.loads: a scanner over positions 1..Len(s) *)

Fail == [ok |-> FALSE, val |-> NoneVal, next |-> 0]
Ok(x, n) == [ok |-> TRUE, val |-> x, next |-> n]

RECURSIVE SkipWs(_, _)
SkipWs(s, i) ==
    IF i <= Len(s) /\ s[i] \in Whitespace THEN SkipWs(s, i + 1) ELSE i

\* the characters a backslash escape stands for; <<>> when the escape is invalid
Unescape(c) ==
    CASE c = QUOTE -> <<QUOTE>>
      [] c = BSLASH -> <<BSLASH>>
      [] c = "result" -> <<CR, "esult">>
      [] c = "recommendations" -> <<CR, "ecommendations">>
      [] c = "reasoning" -> <<CR, "easoning">>
      [] c = "null" -> <<LF, "ull">>
      [] c = "name" -> <<LF, "ame">>
      [] c = "type" -> <<TAB, "ype">>
      [] c = "r" -> <<CR>>
      [] c = "n" -> <<LF>>
      [] c = "t" -> <<TAB>>
      [] OTHER -> <<>>

RECURSIVE Concat(_, _, _)
\* f[lo] \o ... \o f[hi], by halving
Concat(f, lo, hi) ==
    IF lo > hi THEN <<>>
    ELSE IF lo = hi THEN f[lo]
    ELSE LET mid == (lo + hi) \div 2 IN Concat(f, lo, mid) \o Concat(f, mid + 1, hi)

\* position j of a string that starts at i lies right after a backslash that
\* is itself not escaped: the run of backslashes ending at j - 1 is odd
Escaped(s, i, j) ==
    LET first == CHOOSE k \in i..j : /\ \A m \in k..(j - 1) : s[m] = BSLASH
                                     /\ \A m \in i..(k - 1) :
                                           \E n \in m..(j - 1) : s[n] # BSLASH
    IN (j - first) % 2 = 1

\* scanstring, from the position i after the opening quote: the string ends
\* at the first quote that is not escaped; every escape before it must be a
\* valid one and no control character may stand unescaped
ScanString(s, i) ==
    LET closes == {j \in i..Len(s) : s[j] = QUOTE /\ ~Escaped(s, i, j)}
    IN IF closes = {} THEN Fail
       ELSE LET close == CHOOSE j \in closes : \A k \in closes : j <= k
                bad(j) == IF Escaped(s, i, j) THEN Unescape(s[j]) = <<>>
                          ELSE s[j] \in {CR, LF, TAB}
                piece(j) == IF Escaped(s, i, j) THEN Unescape(s[j])
                            ELSE IF s[j] = BSLASH THEN <<>>
                            ELSE <<s[j]>>
            IN IF \E j \in i..(close - 1) : bad(j) THEN Fail
               ELSE Ok(Concat([j \in 1..(close - i) |-> piece(i + j - 1)], 1, close - i),
                       close + 1)

RECURSIVE ScanDigits(_, _)
ScanDigits(s, i) ==
    IF i <= Len(s) /\ s[i] \in Digits THEN ScanDigits(s, i + 1) ELSE i

ScanNumber(s, i) ==
    IF s[i] = "0" THEN Ok(Num(<<"0">>), i + 1)
    ELSE LET j == ScanDigits(s, i) IN Ok(Num(SubSeq(s, i, j - 1)), j)

RECURSIVE ScanValue(_, _), ScanMembers(_, _, _), ScanItems(_, _, _)

\* scan_once
ScanValue(s, i) ==
    IF i > Len(s) THEN Fail
    ELSE IF s[i] = QUOTE
         THEN LET r == ScanString(s, i + 1)
              IN IF r.ok THEN Ok(Str(r.val), r.next) ELSE Fail
    ELSE IF s[i] = LBRACE
         THEN LET j == SkipWs(s, i + 1)
              IN IF j <= Len(s) /\ s[j] = RBRACE THEN Ok(Dict(<<>>), j + 1)
                 ELSE ScanMembers(s, j, Dict(<<>>))
    ELSE IF s[i] = LBRACK
         THEN LET j == SkipWs(s, i + 1)
              IN IF j <= Len(s) /\ s[j] = RBRACK THEN Ok(List(<<>>), j + 1)
                 ELSE ScanItems(s, j, <<>>)
    ELSE IF s[i] = "null" THEN Ok(NoneVal, i + 1)
    ELSE IF s[i] \in Digits THEN ScanNumber(s, i)
    ELSE Fail

\* JSONObject, at the position where a key must start
ScanMembers(s, i, d) ==
    IF i > Len(s) \/ s[i] # QUOTE THEN Fail
    ELSE LET k == ScanString(s, i + 1)
         IN IF ~k.ok THEN Fail
            ELSE LET c == SkipWs(s, k.next)
                 IN IF c > Len(s) \/ s[c] # COLON THEN Fail
                    ELSE LET x == ScanValue(s, SkipWs(s, c + 1))
                         IN IF ~x.ok THEN Fail
                            ELSE LET e == SkipWs(s, x.next)
                                     d2 == SetKey(d, k.val, x.val)
                                 IN IF e > Len(s) THEN Fail
                                    ELSE IF s[e] = RBRACE THEN Ok(d2, e + 1)
                                    ELSE IF s[e] = COMMA
                                         THEN ScanMembers(s, SkipWs(s, e + 1), d2)
                                    ELSE Fail

\* JSONArray, at the position where an element must start
ScanItems(s, i, items) ==
    LET x == ScanValue(s, i)
    IN IF ~x.ok THEN Fail
       ELSE LET e == SkipWs(s, x.next)
                items2 == Append(items, x.val)
            IN IF e > Len(s) THEN Fail
               ELSE IF s[e] = RBRACK THEN Ok(List(items2), e + 1)
               ELSE IF s[e] = COMMA THEN ScanItems(s, SkipWs(s, e + 1), items2)
               ELSE Fail

\* json.loads(s): ok is FALSE where Python raises json.JSONDecodeError
Loads(s) ==
    LET r == ScanValue(s, SkipWs(s, 1))
    IN IF r.ok /\ SkipWs(s, r.next) = Len(s) + 1 THEN r ELSE Fail

-----------------------------------------------------------------------------
(* json.dumps with its default separators *)

EscapeChar(c) ==
    CASE c = QUOTE -> <<BSLASH, QUOTE>>
      [] c = BSLASH -> <<BSLASH, BSLASH>>
      [] c = CR -> <<BSLASH, "r">>
      [] c = LF -> <<BSLASH, "n">>
      [] c = TAB -> <<BSLASH, "t">>
      [] OTHER -> <<c>>

Escape(s) == Concat([j \in 1..Len(s) |-> EscapeChar(s[j])], 1, Len(s))

Quoted(s) == <<QUOTE>> \o Escape(s) \o <<QUOTE>>

RECURSIVE Dumps(_), DumpsItems(_), DumpsMembers(_)
Dumps(x) ==
    CASE x.t = "null" -> <<"null">>
      [] x.t = "num" -> x.v
      [] x.t = "str" -> Quoted(x.v)
      [] x.t = "arr" -> <<LBRACK>> \o DumpsItems(x.v) \o <<RBRACK>>
      [] x.t = "obj" -> <<LBRACE>> \o DumpsMembers(x.v) \o <<RBRACE>>

DumpsItems(items) ==
    IF items = <<>> THEN <<>>
    ELSE IF Len(items) = 1 THEN Dumps(items[1])
    ELSE Dumps(items[1]) \o <<COMMA, SPACE>> \o DumpsItems(Tail(items))

DumpsMembers(pairs) ==
    IF pairs = <<>> THEN <<>>
    ELSE LET m == Quoted(pairs[1][1]) \o <<COLON, SPACE>> \o Dumps(pairs[1][2])
         IN IF Len(pairs) = 1 THEN m
            ELSE m \o <<COMMA, SPACE>> \o DumpsMembers(Tail(pairs))

-----------------------------------------------------------------------------
(* What a call produces: a returned value or an exception that escapes *)

NoOutcome == [kind |-> "none", val |-> NoneVal]
Return(x) == [kind |-> "return", val |-> x]
Raise(e) == [kind |-> "raise", val |-> Str(<<e>>)]

RESULT == <<"result">>
RECOMMENDATIONS == <<"recommendations">>
EmptyList == List(<<>>)

-----------------------------------------------------------------------------
(* call_cursor_agent *)

\* json.loads(s) as a statement: the value, or JSONDecodeError raised
Decoded(r) == IF r.ok THEN Return(r.val) ELSE Raise("JSONDecodeError")
LoadsOrRaise(s) == Decoded(Loads(s))

\* slip: the last `{` instead of the first
JsonStartLast(text) == RFind(text, LBRACE)
JsonStart(text) == Find(text, LBRACE)

\* slip: the end index stops before the closing brace
JsonEndExclusive(text) == RFind(text, RBRACE)
JsonEnd(text) == RFind(text, RBRACE) + 1

\* the wrapper branch: result_text = wrapper["result"] and what is made of it
FromResultText(result_text) ==
    IF ~IsStr(result_text) THEN Raise("AttributeError")
    ELSE LET json_start == JsonStart(result_text.v)
             json_end == JsonEnd(result_text.v)
         IN LoadsOrRaise(IF json_start >= 0 /\ json_end > json_start
                         THEN Slice(result_text.v, json_start, json_end)
                         ELSE result_text.v)

\* slip: text without a JSON object in it is handed back as the result
FromRawOutputLenient(output) ==
    LET json_start == JsonStart(output)
        json_end == JsonEnd(output)
    IN IF json_start >= 0 /\ json_end > json_start
       THEN LET r == Loads(Slice(output, json_start, json_end))
            IN IF r.ok THEN Return(r.val) ELSE Return(Str(output))
       ELSE Return(Str(output))

\* the inner except json.JSONDecodeError: extract JSON from the raw output
FromRawOutput(output) ==
    LET json_start == JsonStart(output)
        json_end == JsonEnd(output)
    IN IF json_start >= 0 /\ json_end > json_start
       THEN LoadsOrRaise(Slice(output, json_start, json_end))
       ELSE Raise("JSONDecodeError")

\* the inner try statement: a JSONDecodeError raised anywhere in its body,
\* the wrapper branch included, enters the inner handler
InnerExcept(output, o) ==
    IF o = Raise("JSONDecodeError") THEN FromRawOutput(output) ELSE o

\* slip: a parsed value without `result` is taken for a failure
DropWrapper(wrapper) == Return(NoneVal)
\* else: return wrapper
UseWrapper(wrapper) == Return(wrapper)

\* the body of the inner try, given what json.loads(output) gave
InnerTry(wrapper) ==
    IF ~wrapper.ok THEN Raise("JSONDecodeError")
    ELSE IF IsDict(wrapper.val) /\ HasKey(wrapper.val, RESULT)
         THEN FromResultText(GetKey(wrapper.val, RESULT))
    ELSE UseWrapper(wrapper.val)

ParseOutput(output) == InnerExcept(output, InnerTry(Loads(output)))

\* the outer except clauses: TimeoutExpired, JSONDecodeError,
\* FileNotFoundError and Exception all return None
Caught(e) == TRUE
Handle(o) == IF o.kind = "raise" /\ Caught(o.val.v[1]) THEN Return(NoneVal) ELSE o

\* slip: the exit code is not looked at
ReturnCodeIgnored(rc) == FALSE
ReturnCodeFailed(rc) == rc # 0

\* the body after subprocess.run has returned a CompletedProcess
AfterRun(rc, out) ==
    Handle(IF ReturnCodeFailed(rc) THEN Return(NoneVal) ELSE ParseOutput(Strip(out)))

-----------------------------------------------------------------------------
(* analyze_project_prompts / analyze_cross_project_patterns: the part after
   call_cursor_agent has returned *)

SCOPE == <<"scope">>
PROJECT_PATH == <<"project_path">>

\* slip: the agent's own scope and project_path are kept when present
TagMissing(rec, scope, path) ==
    SetKey(SetKey(rec, SCOPE, DictGet(rec, SCOPE, scope)),
           PROJECT_PATH, DictGet(rec, PROJECT_PATH, path))
\* rec["scope"] = scope; rec["project_path"] = path
Tag(rec, scope, path) == SetKey(SetKey(rec, SCOPE, scope), PROJECT_PATH, path)

\* the tagged item put in front of the outcome of the rest of the loop
Tagged(rec, rest) ==
    IF rest.kind = "raise" THEN rest ELSE Return(List(<<rec>> \o rest.val.v))

\* slip: the loop stops after the first item
TagFirst(items, scope, path) ==
    IF items = <<>> THEN Return(EmptyList)
    ELSE IF ~IsDict(items[1]) THEN Raise("TypeError")
    ELSE Return(List(<<Tag(items[1], scope, path)>>))

RECURSIVE TagAll(_, _, _)
\* for rec in recommendations: rec["scope"] = scope; rec["project_path"] = path
TagAll(items, scope, path) ==
    IF items = <<>> THEN Return(EmptyList)
    ELSE IF ~IsDict(items[1]) THEN Raise("TypeError")
    ELSE Tagged(Tag(items[1], scope, path), TagAll(Tail(items), scope, path))

TagRecommendations(resp, scope, path) ==
    IF ~Truthy(resp) THEN Return(EmptyList)
    ELSE IF ~IsDict(resp) THEN Raise("AttributeError")
    ELSE LET recommendations == DictGet(resp, RECOMMENDATIONS, EmptyList)
         IN CASE recommendations.t = "arr" -> TagAll(recommendations.v, scope, path)
              [] recommendations.t \in {"str", "obj"} ->
                    IF recommendations.v = <<>> THEN Return(recommendations)
                    ELSE Raise("TypeError")
              [] OTHER -> Raise("TypeError")

-----------------------------------------------------------------------------
(* format_prompts_for_analysis.  In a prompt record prompt_text is a sequence
   of single characters, so that its length is its number of characters. *)

LPAREN == "("
RPAREN == ")"

\* s[:n]: the first n elements, all but the last -n when n is negative
Prefix(s, n) ==
    IF n >= 0 THEN SubSeq(s, 1, IF n < Len(s) THEN n ELSE Len(s))
    ELSE SubSeq(s, 1, Len(s) + n)

TextBudget == 500

\* slip: the prompt text is shown in full
TruncateNone(text) == text
\* prompt.get('prompt_text', '')[:500]
Truncate(text) == Prefix(text, TextBudget)

\* the f-strings that make one entry
Entry(i, prompt) ==
    <<"Prompt", SPACE, ToString(i), SPACE, LPAREN>> \o prompt.timestamp \o <<RPAREN>>
    \o (IF prompt.user_action # <<>>
        THEN <<SPACE, LBRACK, "Action", COLON, SPACE>> \o prompt.user_action \o <<RBRACK>>
        ELSE <<>>)
    \o <<COLON, LF>> \o Truncate(prompt.prompt_text) \o <<LF>>

\* slip: the summary counts every record
OmittedAll(ps, n) == Len(ps)
\* len(prompts) - max_prompts
Omitted(ps, n) == Len(ps) - n

Summary(k) ==
    <<LF, "...", SPACE, "and", SPACE, ToString(k), SPACE, "more", SPACE, "prompts">>

\* for i, prompt in enumerate(prompts_to_analyze, 1): formatted.append(entry)
Entries(prompts_to_analyze) ==
    [i \in 1..Len(prompts_to_analyze) |-> Entry(i, prompts_to_analyze[i])]

\* the list `formatted` when the loop and the `if` after it are done
Formatted(ps, n) ==
    Entries(Prefix(ps, n))
    \o (IF Len(ps) > n THEN <<Summary(Omitted(ps, n))>> ELSE <<>>)

\* sep.join(parts)
Join(parts, sep) ==
    Concat([i \in 1..Len(parts) |-> IF i = 1 THEN parts[i] ELSE <<sep>> \o parts[i]],
           1, Len(parts))

\* what format_prompts_for_analysis returns: "\n".join(formatted)
Transcript(ps, n) == Join(Formatted(ps, n), LF)

-----------------------------------------------------------------------------
(* The instruction given to the agent: generate_recommendations_prompt and
   the prompt analyze_cross_project_patterns builds itself.  A fixed passage
   of an instruction is one symbol. *)

DefaultMaxPrompts == 50

\* slip: the whole evidence is formatted
CrossMaxPromptsAll(all_prompts) == Len(all_prompts)
\* format_prompts_for_analysis(all_prompts, max_prompts=50)
CrossMaxPrompts(all_prompts) == DefaultMaxPrompts

INTRO == "Analyze these prompts from a coding session and identify patterns that would benefit from Cursor rules or commands."
PROJECT_CONTEXT == "These prompts are from the project: "
GLOBAL_NOTE == "These prompts span multiple projects. Look for patterns that would benefit from global rules or commands."
GUIDANCE == "For each pattern you identify, provide: ... - Would benefit from being persistent or reusable"
JSON_ONLY == "Return only valid JSON, no additional text before or after."
CROSS_INTRO == "Analyze these prompts from multiple projects and identify patterns that appear across projects. These should be global rules or commands."
PROJECTS_ANALYZED == "Projects analyzed:"
CROSS_GUIDANCE == "For each cross-project pattern you identify, provide: ... - Universal conventions or best practices"

\* slip: the project line is written whatever the path is
HasPathAlways(path) == TRUE
\* `and project_path`: None and the empty string are no path
HasPath(path) == Truthy(path)

\* scope_context
ScopeContext(sc, path) ==
    IF sc = "project" /\ HasPath(path)
    THEN <<LF, LF, PROJECT_CONTEXT>> \o path.v
    ELSE IF sc = "global" THEN <<LF, LF, GLOBAL_NOTE>>
    ELSE <<>>

\* the f-string generate_recommendations_prompt returns
RecommendationsPrompt(formatted_prompts, sc, path) ==
    <<INTRO>> \o ScopeContext(sc, path) \o <<LF, LF>> \o formatted_prompts
    \o <<LF, LF, GUIDANCE, LF, LF, JSON_ONLY>>

\* f"{project_path}: {len(prompts)} prompts"
ProjectSummary(pair) ==
    pair[1].v \o <<COLON, SPACE, ToString(Len(pair[2])), SPACE, "prompts">>

\* the f-string analyze_cross_project_patterns passes to the agent
CrossProjectPrompt(project_summary, formatted_prompts) ==
    <<CROSS_INTRO, LF, LF, PROJECTS_ANALYZED, LF>> \o Join(project_summary, LF)
    \o <<LF, LF>> \o formatted_prompts
    \o <<LF, LF, CROSS_GUIDANCE, LF, LF, JSON_ONLY>>

-----------------------------------------------------------------------------
(* generate_deeplink of src/prompt_analyzer/recommend/html_output.py.  Its
   texts are sequences of single characters; "<e-acute>" is the one
   character U+00E9. *)

AMP == "&"
SLASH == "/"
EACUTE == "<e-acute>"

\* the characters urllib's quote_plus leaves as they are
Unreserved == {"a", "b", "c", "d", "e", "l", "m", "n", "o", "r", "t", "u", "x", "1", "-", "."}

\* quote_plus on one character: a space becomes `+`, a character that is
\* not unreserved becomes %XX for each byte of its UTF-8 encoding
QuotePlusChar(c) ==
    CASE c \in Unreserved -> <<c>>
      [] c = SPACE -> <<"+">>
      [] c = AMP -> <<"%", "2", "6">>
      [] c = SLASH -> <<"%", "2", "F">>
      [] c = EACUTE -> <<"%", "C", "3", "%", "A", "9">>

QuotePlus(s) == Concat([i \in 1..Len(s) |-> QuotePlusChar(s[i])], 1, Len(s))

\* urlencode({"name": n, "text": t})
Urlencode(n, t) ==
    <<"n", "a", "m", "e", "=">> \o QuotePlus(n) \o <<AMP, "t", "e", "x", "t", "=">> \o QuotePlus(t)

\* f"cursor://anysphere.cursor-deeplink/{type}"
BaseUrl(t) ==
    <<"c", "u", "r", "s", "o", "r", ":", "/", "/",
      "a", "n", "y", "s", "p", "h", "e", "r", "e", ".",
      "c", "u", "r", "s", "o", "r", "-", "d", "e", "e", "p", "l", "i", "n", "k", "/">> \o t

UrlLimit == 8000

\* f"{base_url}?{query_string}"
FullUrl(base_url, query_string) == base_url \o <<"?">> \o query_string

\* max_content_length
MaxContentLength(t, n) == UrlLimit - Len(BaseUrl(t)) - Len(Urlencode(n, <<>>))

GenerateDeeplink(t, n, c) ==
    IF Len(FullUrl(BaseUrl(t), Urlencode(n, c))) > UrlLimit
    THEN FullUrl(BaseUrl(t), Urlencode(n, Prefix(c, MaxContentLength(t, n))))
    ELSE FullUrl(BaseUrl(t), Urlencode(n, c))

-----------------------------------------------------------------------------
(* Bounds and the inputs drawn within them *)

MaxRawLen == 2
MaxRecs == 2
MaxPrompts == 2

RECURSIVE SeqsUpTo(_, _)
SeqsUpTo(S, n) ==
    IF n = 0 THEN {<<>>}
    ELSE LET shorter == SeqsUpTo(S, n - 1)
         IN shorter \cup {Append(q, x) : q \in {r \in shorter : Len(r) = n - 1}, x \in S}

\* prompt records as the log store hands them over
Rec1 == [prompt_text |-> <<"x">>, timestamp |-> <<"1">>, user_action |-> <<>>]
PromptLists == SeqsUpTo({Rec1}, MaxPrompts)
FullList == [i \in 1..MaxPrompts |-> Rec1]

SampleSize == 10

\* more records than one project's sample holds, each with its own timestamp
LongList ==
    [i \in 1..(SampleSize + 1) |->
        [prompt_text |-> <<"x">>, timestamp |-> <<ToString(i)>>, user_action |-> <<>>]]

PathA == Str(<<"A">>)
PathB == Str(<<"B">>)
PathC == Str(<<"C">>)
ProjectPaths == {NoneVal, PathA}

\* the scopes and project paths generate_recommendations_prompt is tried
\* with: both scopes it knows and one it does not, no path, the empty path
\* and a path
Scopes == {"project", "global", "team"}
PromptPaths == {NoneVal, Str(<<>>), PathA}

\* k projects that each hold more records than a sample takes
ProjectNames == <<"A", "B", "C", "D", "E", "F", "G">>
ManyProjects(k) ==
    [i \in 1..k |->
        <<Str(<<ProjectNames[i]>>),
          [j \in 1..(SampleSize + 1) |->
              [prompt_text |-> <<"x">>, timestamp |-> <<ProjectNames[i], ToString(j)>>,
               user_action |-> <<>>]]>>]

\* dicts of project path -> prompt list, in insertion order
Mappings ==
    {<<>>}
    \cup {<<<<k, a>>>> : k \in {PathA, PathB}, a \in PromptLists}
    \cup {<<<<PathB, a>>, <<PathA, b>>>> : a \in {<<>>, FullList}, b \in {<<>>, <<Rec1>>}}
    \cup {<<<<PathA, a>>, <<PathB, b>>, <<PathC, <<>>>>>> :
            a \in {<<>>, <<Rec1>>}, b \in {<<>>, FullList}}
    \cup {<<<<PathA, <<Rec1>>>>, <<PathB, FullList>>, <<PathC, <<Rec1>>>>>>}
    \cup {<<<<PathA, LongList>>, <<PathB, <<Rec1>>>>>>, <<<<PathB, <<Rec1>>>>, <<PathA, LongList>>>>}
    \cup {ManyProjects(DefaultMaxPrompts \div SampleSize),
          ManyProjects(DefaultMaxPrompts \div SampleSize + 1)}

\* the agent's stdout: short arbitrary texts, JSON documents, JSON inside
\* prose, and each of these as the `result` string of a wrapper object
RawAlphabet ==
    {LBRACE, RBRACE, LBRACK, RBRACK, COLON, COMMA, QUOTE, BSLASH, SPACE, "x", "1", "null"}
RawTexts == SeqsUpTo(RawAlphabet, MaxRawLen)

RuleItem == Dict(<< <<<<"type">>, Str(<<"Rule">>)>> >>)
ScopedItem == Dict(<< <<<<"type">>, Str(<<"Command">>)>>, <<<<"scope">>, Str(<<"global">>)>> >>)
ItemValues == {RuleItem, ScopedItem, Num(<<"1">>)}
\* an item on which the agent has put a scope and a project path of its own
PathItem ==
    Dict(<< <<<<"type">>, Str(<<"Rule">>)>>, <<<<"name">>, Str(<<"x">>)>>,
            <<<<"scope">>, Str(<<"project">>)>>, <<<<"project_path">>, Str(<<"B">>)>> >>)

RecommendationsValues ==
    {List(q) : q \in SeqsUpTo(ItemValues, MaxRecs)}
    \cup {NoneVal, Str(<<>>), Str(<<"x">>), Dict(<<>>), RuleItem, Num(<<"1">>)}

\* JSON objects with key `recommendations`
Payloads == {Dict(<< <<RECOMMENDATIONS, r>> >>) : r \in RecommendationsValues}

\* the agent's wrapper object, bare and with the other fields it may carry
Wrapper(result_value) == Dict(<< <<RESULT, result_value>> >>)
LongWrapper(result_value) == Dict(<< <<<<"type">>, Str(RESULT)>>, <<RESULT, result_value>> >>)

OtherValues ==
    {NoneVal, Num(<<"0">>), Num(<<"1">>), Str(<<>>), Str(<<"x">>),
     EmptyList, List(<<Num(<<"1">>)>>), List(<<RuleItem>>),
     Dict(<<>>), RuleItem,
     Wrapper(NoneVal), Wrapper(Num(<<"1">>)), Wrapper(EmptyList),
     Wrapper(Dict(<< <<RECOMMENDATIONS, List(<<RuleItem>>)>> >>))}

ProsePrefixes == {<<>>, <<"x", COLON, LF>>, <<"x", LBRACE, SPACE>>, <<QUOTE>>}
ProseSuffixes == {<<>>, <<LF, "x">>, <<SPACE, RBRACE, "x">>, <<QUOTE>>}
ProsePayloads ==
    {Dict(<< <<RECOMMENDATIONS, r>> >>) :
        r \in {EmptyList, List(<<RuleItem>>), NoneVal, List(<<Num(<<"1">>)>>)}}
ProseTexts ==
    {pre \o Dumps(x) \o post : pre \in ProsePrefixes, x \in ProsePayloads, post \in ProseSuffixes}

CandidateTexts == RawTexts \cup {Dumps(x) : x \in Payloads} \cup ProseTexts
WrappedTexts == {Dumps(Wrapper(Str(c))) : c \in CandidateTexts}
StdoutTexts ==
    CandidateTexts
    \cup {Dumps(x) : x \in OtherValues}
    \cup WrappedTexts
    \cup {<<SPACE>> \o Dumps(LongWrapper(Str(Dumps(x)))) \o <<LF>> : x \in ProsePayloads}
    \cup {Dumps(LongWrapper(Str(c))) : c \in {<<>>, <<"x">>, <<LBRACE>>, <<RBRACE, LBRACE>>}}
    \cup {<<"x", SPACE>> \o Dumps(Wrapper(Str(<<"x">>)))}

\* the outputs tried under an analyze call: every JSON document, the wrapped
\* payloads, and one text of each way the parse can fail or recover
AnalyzeTexts ==
    {Dumps(x) : x \in OtherValues \cup Payloads}
    \cup {Dumps(Wrapper(Str(Dumps(x)))) : x \in ProsePayloads}
    \cup {Dumps(Dict(<< <<RECOMMENDATIONS, List(<<PathItem, ScopedItem>>)>> >>)),
          Dumps(Wrapper(Str(Dumps(Dict(<< <<RECOMMENDATIONS, List(<<PathItem>>)>> >>)))))}
    \cup {<<>>, <<"x", SPACE>>, Dumps(Wrapper(Str(<<"x">>))),
          <<"x", COLON, LF>> \o Dumps(Dict(<< <<RECOMMENDATIONS, List(<<RuleItem>>)>> >>))
              \o <<LF, "x">>}

\* a direct call of call_cursor_agent is tried with every text
StdoutFor(o) == IF o = "agent" THEN StdoutTexts ELSE AnalyzeTexts

ReturnCodes == {0, 1}

\* n characters that differ from their neighbours
Chars(n) == [i \in 1..n |-> IF i % 2 = 1 THEN "a" ELSE "b"]

\* records for the formatter: a short text, a text of exactly the budget with
\* an action, and a text one character over the budget
FormatRecords ==
    {Rec1,
     [prompt_text |-> Chars(TextBudget), timestamp |-> <<"2">>, user_action |-> <<"accepted">>],
     [prompt_text |-> Chars(TextBudget + 1), timestamp |-> <<"3">>, user_action |-> <<>>]}
FormatLists == SeqsUpTo(FormatRecords, MaxPrompts + 1)

\* deeplinks: both types, a plain name and one with characters to encode,
\* contents well under, just under, at and over the limit
Repeat(c, n) == [i \in 1..n |-> c]
LinkTypes == {<<"r", "u", "l", "e">>, <<"c", "o", "m", "m", "a", "n", "d">>}
LinkNames == {<<"n">>, <<"a", SPACE, AMP, "b">>}
LinkContents ==
    {<<>>, <<"a", SPACE, SLASH, EACUTE>>,
     Repeat("a", UrlLimit - 100), Repeat("a", UrlLimit - 52), Repeat("a", UrlLimit - 51),
     Repeat("a", UrlLimit + 1000), Repeat(AMP, UrlLimit \div 2), Repeat(SPACE, UrlLimit)}
MaxCounts == 0..MaxPrompts

-----------------------------------------------------------------------------
(* The state machine.  pc: "idle" (no call in progress), "call" (inside
   call_cursor_agent, before subprocess.run), "run" (the agent process is
   running), "returned" (call_cursor_agent has returned), "done" (the analyze
   function has returned or raised). *)

\* a file that does not exist, and a file with its text and permission bits
NoFile == [exists |-> FALSE, text |-> <<>>, mode |-> "none"]
File(text, mode) == [exists |-> TRUE, text |-> text, mode |-> mode]

NoRequest ==
    [scope |-> "none", context |-> NoneVal, evidence |-> <<>>, summary |-> <<>>,
     prompt |-> <<>>]

\* no call made yet
CallInit ==
    /\ pc = "idle"
    /\ op = "none"
    /\ prompts = <<>>
    /\ project_path = NoneVal
    /\ prompts_by_project = <<>>
    /\ request = NoRequest
    /\ proc = "none"
    /\ spawns = 0
    /\ agentCalls = 0
    /\ returncode = 0
    /\ stdout = <<>>
    /\ fault = "none"
    /\ response = NoOutcome
    /\ result = NoOutcome
    /\ max_prompts = 0
    /\ formatted = <<>>
    /\ type = <<>>
    /\ name = <<>>
    /\ content = <<>>
    /\ prompt_scope = "none"
    /\ overwrite = FALSE

Init ==
    /\ CallInit
    /\ hooks_dir = FALSE
    /\ hooks_json = NoFile
    /\ hook_script = NoFile
    /\ json_before = NoFile
    /\ script_before = NoFile

\* the files of the hook installer, its argument and the files as they were
\* when its last call began
hookVars == <<hooks_dir, hooks_json, hook_script, overwrite, json_before, script_before>>

\* the arguments and locals of the formatter and of the deeplink generator,
\* and what only the installer touches
otherVars == <<max_prompts, formatted, type, name, content, prompt_scope, hookVars>>

agentVars == <<proc, spawns, returncode, stdout, fault, response>>

\* slip: one project is taken to be enough
MinProjectsOne == 1
MinProjects == 2

\* slip: every record of the project is taken
SampleWhole(ps) == ps
\* sample = prompts[:10]
Sample(ps) == SubSeq(ps, 1, IF Len(ps) < SampleSize THEN Len(ps) ELSE SampleSize)

RECURSIVE Samples(_)
\* all_prompts: the sample of each project, concatenated in iteration order
Samples(m) ==
    IF m = <<>> THEN <<>>
    ELSE Sample(m[1][2]) \o Samples(Tail(m))

\* slip: the empty prompt set is analysed like any other
NoPromptsNever(ps) == FALSE
\* if not prompts
NoPrompts(ps) == ps = <<>>

\* analyze_project_prompts(ps, path), up to its call of call_cursor_agent
AnalyzeProjectPrompts(ps, path) ==
    /\ pc = "idle"
    /\ op' = "project"
    /\ prompts' = ps
    /\ project_path' = path
    /\ IF NoPrompts(ps)
       THEN /\ result' = Return(EmptyList)
            /\ pc' = "done"
            /\ UNCHANGED <<request, agentCalls>>
            /\ UNCHANGED <<max_prompts, formatted, prompt_scope>>
       ELSE /\ prompt_scope' = "project"
            /\ max_prompts' = DefaultMaxPrompts
            /\ formatted' = Formatted(ps, DefaultMaxPrompts)
            /\ request' = [scope |-> "project", context |-> path,
                           evidence |-> ps, summary |-> <<>>,
                           prompt |-> RecommendationsPrompt(
                                          Transcript(ps, DefaultMaxPrompts), "project", path)]
            /\ agentCalls' = agentCalls + 1
            /\ pc' = "call"
            /\ UNCHANGED result
    /\ UNCHANGED <<prompts_by_project, agentVars, type, name, content, hookVars>>

\* analyze_cross_project_patterns(m), up to its call of call_cursor_agent
AnalyzeCrossProjectPatterns(m) ==
    /\ pc = "idle"
    /\ op' = "cross"
    /\ prompts_by_project' = m
    /\ IF Len(m) < MinProjects \/ Samples(m) = <<>>
       THEN /\ result' = Return(EmptyList)
            /\ pc' = "done"
            /\ UNCHANGED <<request, agentCalls>>
            /\ UNCHANGED <<max_prompts, formatted>>
       ELSE /\ max_prompts' = CrossMaxPrompts(Samples(m))
            /\ formatted' = Formatted(Samples(m), CrossMaxPrompts(Samples(m)))
            /\ request' = [scope |-> "global", context |-> NoneVal,
                           evidence |-> Samples(m),
                           summary |-> [i \in 1..Len(m) |-> <<m[i][1], Len(m[i][2])>>],
                           prompt |-> CrossProjectPrompt(
                                          [i \in 1..Len(m) |-> ProjectSummary(m[i])],
                                          Transcript(Samples(m), CrossMaxPrompts(Samples(m))))]
            /\ agentCalls' = agentCalls + 1
            /\ pc' = "call"
            /\ UNCHANGED result
    /\ UNCHANGED <<prompts, project_path, agentVars, type, name, content, prompt_scope,
                   hookVars>>

\* call_cursor_agent(prompt) called on its own, up to subprocess.run
CallCursorAgent ==
    /\ pc = "idle"
    /\ op' = "agent"
    /\ agentCalls' = agentCalls + 1
    /\ pc' = "call"
    /\ UNCHANGED <<prompts, project_path, prompts_by_project, request, result, agentVars,
                   otherVars>>

\* slip: a failed invocation is tried again
RetryAfterFailure == "call"
\* where call_cursor_agent goes after a failure: its handlers return
AfterFailure == "returned"

\* subprocess.run cannot start the agent: FileNotFoundError, or another
\* OSError; nothing was spawned
AgentNotStarted(e) ==
    /\ pc = "call"
    /\ fault' = e
    /\ response' = Handle(Raise(e))
    /\ pc' = AfterFailure
    /\ UNCHANGED <<otherVars, op, prompts, project_path, prompts_by_project, request,
                   proc, spawns, agentCalls, returncode, stdout, result>>

\* subprocess.run starts the agent process and waits for it
AgentStart ==
    /\ pc = "call"
    /\ proc' = "running"
    /\ spawns' = spawns + 1
    /\ pc' = "run"
    /\ UNCHANGED <<otherVars, op, prompts, project_path, prompts_by_project, request,
                   agentCalls, returncode, stdout, fault, response, result>>

\* the process exits in time with code rc and output out; call_cursor_agent
\* runs to its return
AgentExit(rc, out) ==
    /\ pc = "run"
    /\ proc' = "exited"
    /\ returncode' = rc
    /\ stdout' = out
    /\ response' = AfterRun(rc, out)
    /\ pc' = IF ReturnCodeFailed(rc) THEN AfterFailure ELSE "returned"
    /\ UNCHANGED <<otherVars, op, prompts, project_path, prompts_by_project, request,
                   spawns, agentCalls, fault, result>>

\* slip: the child is waited for with a timeout but never killed
ProcLeftRunning == "running"
\* subprocess.run(timeout=120): when the timeout expires run() kills the
\* child, waits for it and raises TimeoutExpired
ProcAfterTimeout == "killed"

AgentTimeout ==
    /\ pc = "run"
    /\ proc' = ProcAfterTimeout
    /\ fault' = "TimeoutExpired"
    /\ response' = Handle(Raise("TimeoutExpired"))
    /\ pc' = AfterFailure
    /\ UNCHANGED <<otherVars, op, prompts, project_path, prompts_by_project, request,
                   spawns, agentCalls, returncode, stdout, result>>

\* the agent process was started but run() fails while collecting its output
\* (e.g. undecodable bytes): run() kills the child and lets the error out
AgentOutputFault ==
    /\ pc = "run"
    /\ proc' = "killed"
    /\ fault' = "UnicodeDecodeError"
    /\ response' = Handle(Raise("UnicodeDecodeError"))
    /\ pc' = AfterFailure
    /\ UNCHANGED <<otherVars, op, prompts, project_path, prompts_by_project, request,
                   spawns, agentCalls, returncode, stdout, result>>

\* the rest of the analyze function: `if not response`, .get, tagging.
\* The CompletedProcess was local to call_cursor_agent and is gone.
AnalyzeReturn ==
    /\ pc = "returned"
    /\ op # "agent"
    /\ result' =
         IF response.kind = "raise" THEN response
         ELSE IF op = "project"
              THEN TagRecommendations(response.val, Str(<<"project">>), project_path)
              ELSE TagRecommendations(response.val, Str(<<"global">>), NoneVal)
    /\ returncode' = 0
    /\ stdout' = <<>>
    /\ pc' = "done"
    /\ UNCHANGED <<otherVars, op, prompts, project_path, prompts_by_project, request,
                   proc, spawns, agentCalls, fault, response>>

\* format_prompts_for_analysis(ps, n) called on its own
FormatPromptsForAnalysis(ps, n) ==
    /\ pc = "idle"
    /\ op' = "format"
    /\ prompts' = ps
    /\ max_prompts' = n
    /\ formatted' = Formatted(ps, n)
    /\ result' = Return(Str(Transcript(ps, n)))
    /\ pc' = "done"
    /\ UNCHANGED <<project_path, prompts_by_project, request, agentCalls, agentVars,
                   type, name, content, prompt_scope, hookVars>>

\* generate_deeplink(t, n, c)
GenerateDeeplinkCall(t, n, c) ==
    /\ pc = "idle"
    /\ op' = "deeplink"
    /\ type' = t
    /\ name' = n
    /\ content' = c
    /\ result' = Return(Str(GenerateDeeplink(t, n, c)))
    /\ pc' = "done"
    /\ UNCHANGED <<prompts, project_path, prompts_by_project, request, agentCalls, agentVars,
                   max_prompts, formatted, prompt_scope, hookVars>>

\* generate_recommendations_prompt(ps, sc, path) called on its own
GenerateRecommendationsPrompt(ps, sc, path) ==
    /\ pc = "idle"
    /\ op' = "prompt"
    /\ prompts' = ps
    /\ prompt_scope' = sc
    /\ project_path' = path
    /\ max_prompts' = DefaultMaxPrompts
    /\ formatted' = Formatted(ps, DefaultMaxPrompts)
    /\ result' = Return(Str(RecommendationsPrompt(Transcript(ps, DefaultMaxPrompts), sc, path)))
    /\ pc' = "done"
    /\ UNCHANGED <<prompts_by_project, request, agentCalls, agentVars, type, name, content,
                   hookVars>>

\* the caller issues a new, independent call
NewCall ==
    /\ pc = "done" \/ (pc = "returned" /\ op = "agent")
    /\ pc' = "idle"
    /\ op' = "none"
    /\ prompts' = <<>>
    /\ project_path' = NoneVal
    /\ prompts_by_project' = <<>>
    /\ request' = NoRequest
    /\ proc' = "none"
    /\ spawns' = 0
    /\ agentCalls' = 0
    /\ returncode' = 0
    /\ stdout' = <<>>
    /\ fault' = "none"
    /\ response' = NoOutcome
    /\ result' = NoOutcome
    /\ max_prompts' = 0
    /\ formatted' = <<>>
    /\ type' = <<>>
    /\ name' = <<>>
    /\ content' = <<>>
    /\ prompt_scope' = "none"
    /\ UNCHANGED hookVars

Next ==
    \/ \E ps \in PromptLists, path \in ProjectPaths : AnalyzeProjectPrompts(ps, path)
    \/ \E m \in Mappings : AnalyzeCrossProjectPatterns(m)
    \/ CallCursorAgent
    \/ \E ps \in FormatLists, n \in MaxCounts : FormatPromptsForAnalysis(ps, n)
    \/ \E ps \in PromptLists, sc \in Scopes, path \in PromptPaths :
          GenerateRecommendationsPrompt(ps, sc, path)
    \/ \E t \in LinkTypes, n \in LinkNames, c \in LinkContents : GenerateDeeplinkCall(t, n, c)
    \/ \E e \in {"FileNotFoundError", "PermissionError"} : AgentNotStarted(e)
    \/ AgentStart
    \/ \E rc \in ReturnCodes, out \in StdoutFor(op) : AgentExit(rc, out)
    \/ AgentTimeout
    \/ AgentOutputFault
    \/ AnalyzeReturn
    \/ NewCall

Spec == Init /\ [][Next]_vars

-----------------------------------------------------------------------------
(* install_hooks and uninstall_hooks of src/prompt_analyzer/hooks/installer.py.
   The files are ~/.cursor/hooks.json and ~/.cursor/hooks/prompt-analyzer.js;
   the script's path is one symbol, so `in` on texts finds it whole. *)

HOOKS == <<"hooks">>
HOOK == <<"hook">>
APOS == "'"

\* str(hook_script_path)
HookScriptPath == <<"~/.cursor/hooks/prompt-analyzer.js">>

\* what generate_hook_script and get_hooks_json_content of hooks/generator.py
\* give: the script's text, and a configuration whose "hooks" list holds the
\* entries that run the script
HookScriptContent == <<"prompt-analyzer hook script">>
NewHooksConfig ==
    Dict(<< <<<<"version">>, Num(<<"1">>)>>,
            <<HOOKS, List(<<Dict(<< <<<<"event">>, Str(<<"beforeSubmitPrompt">>)>>,
                                    <<HOOK, Str(HookScriptPath)>> >>),
                            Dict(<< <<<<"event">>, Str(<<"stop">>)>>,
                                    <<HOOK, Str(HookScriptPath)>> >>)>>)>> >>)

\* {"hooks": []}
EmptyConfig == Dict(<< <<HOOKS, EmptyList>> >>)

\* the pair a call returns
Tuple(success, message) == [t |-> "tuple", v |-> <<success, message>>]

\* json.dump(x, f, indent=2): one member or item per line, two more spaces
\* per nesting level, empty containers closed at once
Indent(level) == [i \in 1..(2 * level) |-> SPACE]

RECURSIVE DumpsIndent(_, _), DumpsIndentItems(_, _), DumpsIndentMembers(_, _)
DumpsIndent(x, level) ==
    CASE x.t = "null" -> <<"null">>
      [] x.t = "num" -> x.v
      [] x.t = "str" -> Quoted(x.v)
      [] x.t = "arr" ->
           IF x.v = <<>> THEN <<LBRACK, RBRACK>>
           ELSE <<LBRACK, LF>> \o DumpsIndentItems(x.v, level + 1)
                \o <<LF>> \o Indent(level) \o <<RBRACK>>
      [] x.t = "obj" ->
           IF x.v = <<>> THEN <<LBRACE, RBRACE>>
           ELSE <<LBRACE, LF>> \o DumpsIndentMembers(x.v, level + 1)
                \o <<LF>> \o Indent(level) \o <<RBRACE>>

DumpsIndentItems(items, level) ==
    Indent(level) \o DumpsIndent(items[1], level)
    \o (IF Len(items) = 1 THEN <<>>
        ELSE <<COMMA, LF>> \o DumpsIndentItems(Tail(items), level))

DumpsIndentMembers(pairs, level) ==
    Indent(level) \o Quoted(pairs[1][1]) \o <<COLON, SPACE>> \o DumpsIndent(pairs[1][2], level)
    \o (IF Len(pairs) = 1 THEN <<>>
        ELSE <<COMMA, LF>> \o DumpsIndentMembers(Tail(pairs), level))

RECURSIVE PyRepr(_), PyReprItems(_), PyReprMembers(_)
\* repr(x)
PyRepr(x) ==
    CASE x.t = "null" -> <<"None">>
      [] x.t = "num" -> x.v
      [] x.t = "str" -> <<APOS>> \o x.v \o <<APOS>>
      [] x.t = "arr" -> <<LBRACK>> \o PyReprItems(x.v) \o <<RBRACK>>
      [] x.t = "obj" -> <<LBRACE>> \o PyReprMembers(x.v) \o <<RBRACE>>

PyReprItems(items) ==
    IF items = <<>> THEN <<>>
    ELSE PyRepr(items[1])
         \o (IF Len(items) = 1 THEN <<>> ELSE <<COMMA, SPACE>> \o PyReprItems(Tail(items)))

PyReprMembers(pairs) ==
    IF pairs = <<>> THEN <<>>
    ELSE <<APOS>> \o pairs[1][1] \o <<APOS, COLON, SPACE>> \o PyRepr(pairs[1][2])
         \o (IF Len(pairs) = 1 THEN <<>> ELSE <<COMMA, SPACE>> \o PyReprMembers(Tail(pairs)))

\* str(x): a string is itself, anything else its repr
PyStr(x) == IF IsStr(x) THEN x.v ELSE PyRepr(x)

\* `for h in x`: a list gives its items, a dict its keys, a string its
\* characters; None and numbers cannot be iterated (TypeError)
Iterable(x) == x.t \in {"arr", "obj", "str"}
Items(x) ==
    CASE x.t = "arr" -> x.v
      [] x.t = "obj" -> [i \in 1..Len(x.v) |-> Str(x.v[i][1])]
      [] x.t = "str" -> [i \in 1..Len(x.v) |-> Str(<<x.v[i]>>)]

RECURSIVE AnyRegistered(_)
\* any(hook.get("hook") == str(hook_script_path) for hook in ...): any() stops
\* at the first match; an item in front of it that is no dict has no .get
AnyRegistered(items) ==
    IF items = <<>> THEN "False"
    ELSE IF ~IsDict(items[1]) THEN "AttributeError"
    ELSE IF DictGet(items[1], HOOK, NoneVal) = Str(HookScriptPath) THEN "True"
    ELSE AnyRegistered(Tail(items))

RegisteredIn(hooks) ==
    IF Iterable(hooks) THEN AnyRegistered(Items(hooks)) ELSE "TypeError"

\* hook_already_registered: "True", "False", or the exception raised
HookAlreadyRegistered(existing_hooks) ==
    IF IsDict(existing_hooks) THEN RegisteredIn(DictGet(existing_hooks, HOOKS, EmptyList))
    ELSE "AttributeError"

\* str(hook_script_path) in str(h.get("hook", ""))
NamesScript(h) == Occurs(HookScriptPath, PyStr(DictGet(h, HOOK, Str(<<>>))))

\* [h for h in ... if str(hook_script_path) not in str(h.get("hook", ""))]
Others(items) == SelectSeq(items, LAMBDA h : ~NamesScript(h))

\* the list comprehension runs to its end only over dicts
AllDicts(items) == \A i \in 1..Len(items) : IsDict(items[i])

\* existing_hooks, lines 49-57
LoadedOrEmpty(r) == IF r.ok THEN r.val ELSE EmptyConfig
ExistingHooks(json, ow) ==
    IF json.exists /\ ~ow THEN LoadedOrEmpty(Loads(json.text)) ELSE EmptyConfig

\* slip: the entries already in the file are dropped on a merge
MergedAlone(existing_hooks) == NewHooksConfig
\* lines 84-91: the entries kept, then the new ones, under the old top level
Merged(existing_hooks) ==
    SetKey(existing_hooks, HOOKS,
           List(Others(Items(DictGet(existing_hooks, HOOKS, EmptyList)))
                \o GetKey(NewHooksConfig, HOOKS).v))

\* what is dumped into hooks.json, lines 79-93
InstalledConfig(existing_hooks, json, ow) ==
    IF ~ow /\ json.exists THEN Merged(existing_hooks) ELSE NewHooksConfig

\* slip: the script is written before the registration is looked at
RefusedScriptWritten(script) == File(HookScriptContent, "755")
\* return False at lines 65-66 comes before the script is opened
RefusedScript(script) == script

\* the files and the return value after install_hooks, given existing_hooks
\* and hook_already_registered; io = "PermissionError" makes the open of
\* hooks.json for writing fail
InstallOutcome(existing_hooks, registered, json, script, ow, io) ==
    IF registered \notin {"True", "False"}
    THEN [json |-> json, script |-> script,
          result |-> Return(Tuple(FALSE, "Failed to install hooks"))]
    ELSE IF registered = "True" /\ ~ow
    THEN [json |-> json, script |-> RefusedScript(script),
          result |-> Return(Tuple(FALSE, "Hook already registered"))]
    ELSE IF io # "none"
    THEN [json |-> json, script |-> File(HookScriptContent, "755"),
          result |-> Return(Tuple(FALSE, "Failed to install hooks"))]
    ELSE [json |-> File(DumpsIndent(InstalledConfig(existing_hooks, json, ow), 0),
                        IF json.exists THEN json.mode ELSE "644"),
          script |-> File(HookScriptContent, "755"),
          result |-> Return(Tuple(TRUE, "Hooks installed successfully"))]

InstallWith(existing_hooks, json, script, ow, io) ==
    InstallOutcome(existing_hooks, HookAlreadyRegistered(existing_hooks), json, script, ow, io)

Install(json, script, ow, io) == InstallWith(ExistingHooks(json, ow), json, script, ow, io)

\* slip: hooks.json is always removed
AfterFilterNone(hooks_config, kept, json) == NoFile
\* lines 131-135: rewritten when entries remain, removed when none do
AfterFilter(hooks_config, kept, json) ==
    IF kept # <<>>
    THEN File(DumpsIndent(SetKey(hooks_config, HOOKS, List(kept)), 0), json.mode)
    ELSE NoFile

\* lines 119-139 on a hooks.json that parsed: the file afterwards and whether
\* the call got through
UninstallParsed(hooks_config, hooks, json, io) ==
    IF ~Iterable(hooks) \/ ~AllDicts(Items(hooks))
    THEN [json |-> json, ok |-> FALSE]
    ELSE IF io # "none" /\ Others(Items(hooks)) # <<>>
    THEN [json |-> json, ok |-> FALSE]
    ELSE [json |-> AfterFilter(hooks_config, Others(Items(hooks)), json), ok |-> TRUE]

\* except json.JSONDecodeError: hooks_json_path.unlink()
Unparseable(json) == NoFile

UninstallJson(r, json, io) ==
    IF ~r.ok THEN [json |-> Unparseable(json), ok |-> TRUE]
    ELSE IF ~IsDict(r.val) THEN [json |-> json, ok |-> FALSE]
    ELSE UninstallParsed(r.val, DictGet(r.val, HOOKS, EmptyList), json, io)

\* hooks.json after uninstall_hooks and whether the call got through
Uninstall(json, io) ==
    IF json.exists THEN UninstallJson(Loads(json.text), json, io)
    ELSE [json |-> json, ok |-> TRUE]

UninstallResult(ok) ==
    IF ok THEN Return(Tuple(TRUE, "Hooks uninstalled successfully"))
    ELSE Return(Tuple(FALSE, "Failed to uninstall hooks"))

\* the hooks.json files a call may find.  Entries: another tool's, the
\* script's own, one whose command merely contains the script's path, one
\* without a `hook`, and (outside the lists) one whose `hook` is a list
MaxHooks == 2

OtherEntry == Dict(<< <<HOOK, Str(<<"other.js">>)>> >>)
OwnEntry == Dict(<< <<HOOK, Str(HookScriptPath)>> >>)
WrappedEntry == Dict(<< <<HOOK, Str(<<"node", SPACE>> \o HookScriptPath)>> >>)
PlainEntry == Dict(<< <<<<"event">>, Str(<<"stop">>)>> >>)
ListEntry == Dict(<< <<HOOK, List(<<Str(HookScriptPath)>>)>> >>)
HookEntries == {OtherEntry, OwnEntry, WrappedEntry, PlainEntry}
HookLists == SeqsUpTo(HookEntries, MaxHooks)

\* top levels: a `hooks` list alone, one beside another key, a list with an
\* item that is no dict, and the shapes that are valid JSON but no list of
\* entries
Configs ==
    {Dict(<< <<HOOKS, List(l)>> >>) : l \in HookLists}
    \cup {Dict(<< <<HOOKS, List(l)>> >>) :
            l \in {<<Str(<<"x">>)>>, <<OwnEntry, Str(<<"x">>)>>, <<Str(<<"x">>), OwnEntry>>,
                   <<OtherEntry, Str(<<"x">>)>>, <<ListEntry, OtherEntry>>, <<ListEntry>>}}
    \cup {Dict(<< <<<<"version">>, Num(<<"1">>)>>, <<HOOKS, List(<<x, OtherEntry>>)>> >>) :
            x \in {OwnEntry, WrappedEntry, PlainEntry}}
    \cup {Dict(<< <<HOOKS, x>> >>) :
            x \in {NoneVal, Num(<<"1">>), Str(<<>>), Str(<<"x">>), Dict(<<>>), OtherEntry}}
    \cup {Dict(<<>>), Dict(<< <<<<"version">>, Num(<<"1">>)>> >>), EmptyList, NoneVal,
          Str(HookScriptPath)}

JsonTexts ==
    {DumpsIndent(c, 0) : c \in Configs}
    \cup {Dumps(Dict(<< <<HOOKS, List(<<OtherEntry, OwnEntry>>)>> >>)),
          <<>>, <<"x">>, <<LBRACE>>, <<LBRACE, QUOTE, "hooks", QUOTE, COLON, LBRACK>>}

InitialJson == {NoFile} \cup {File(t, "644") : t \in JsonTexts}
InitialScripts == {NoFile, File(<<"an older script">>, "644")}

IoFaults == {"none", "PermissionError"}

HooksInit ==
    /\ CallInit
    /\ hooks_json \in InitialJson
    /\ hook_script \in InitialScripts
    /\ hooks_dir = hook_script.exists
    /\ json_before = hooks_json
    /\ script_before = hook_script

\* what the installer leaves alone
analyzerVars ==
    <<pc, prompts, project_path, prompts_by_project, request, agentCalls, agentVars,
      max_prompts, formatted, type, name, content, prompt_scope>>

\* install_hooks(overwrite=ow), from call to return; with io a fault,
\* hooks.json exists and cannot be opened for writing
InstallHooks(ow, io) ==
    /\ io = "none" \/ hooks_json.exists
    /\ op' = "install"
    /\ overwrite' = ow
    /\ json_before' = hooks_json
    /\ script_before' = hook_script
    /\ hooks_dir' = TRUE
    /\ \E after \in {Install(hooks_json, hook_script, ow, io)} :
          /\ hooks_json' = after.json
          /\ hook_script' = after.script
          /\ result' = after.result
    /\ UNCHANGED analyzerVars

\* uninstall_hooks(), from call to return
UninstallHooks(io) ==
    /\ io = "none" \/ hooks_json.exists
    /\ op' = "uninstall"
    /\ json_before' = hooks_json
    /\ script_before' = hook_script
    /\ hook_script' = NoFile
    /\ \E after \in {Uninstall(hooks_json, io)} :
          /\ hooks_json' = after.json
          /\ result' = UninstallResult(after.ok)
    /\ UNCHANGED <<analyzerVars, hooks_dir, overwrite>>

HooksNext ==
    \/ \E ow \in BOOLEAN, io \in IoFaults : InstallHooks(ow, io)
    \/ \E io \in IoFaults : UninstallHooks(io)

HooksSpec == HooksInit /\ [][HooksNext]_vars

-----------------------------------------------------------------------------
(* Vocabulary of the properties *)

\* call_cursor_agent has returned after the agent exited with code 0
AgentSucceeded == pc = "returned" /\ fault = "none" /\ returncode = 0

\* the text from the first `{` to the last `}` of a text, <<>> when there is none
BraceSpan(text) ==
    IF Find(text, LBRACE) >= 0 /\ RFind(text, RBRACE) > Find(text, LBRACE)
    THEN SubSeq(text, Find(text, LBRACE) + 1, RFind(text, RBRACE) + 1)
    ELSE <<>>

IsJson(text) == Loads(text).ok
IsJsonObject(text) == Loads(text).ok /\ IsDict(Loads(text).val)

IsWrapperText(text) == IsJsonObject(text) /\ HasKey(Loads(text).val, RESULT)
ResultField(text) == GetKey(Loads(text).val, RESULT)

\* the number of projects of a mapping that have at least one record
NonEmptyProjects(m) == Cardinality({i \in 1..Len(m) : m[i][2] # <<>>})

-----------------------------------------------------------------------------
(* Properties *)

\* C1: whatever the agent does, analyze_project_prompts and
\* analyze_cross_project_patterns return a list and let no exception escape.
C1_AlwaysReturnsList ==
    pc = "done" => result.kind = "return" /\ IsList(result.val)

\* C2: when stdout parses as a JSON object with a `result` field, what
\* call_cursor_agent returns is parsed from that field's string or is None;
\* it is never the outer wrapper object.
C2_WrapperNeverReturned ==
    AgentSucceeded /\ IsWrapperText(stdout) =>
        \/ response = Return(NoneVal)
        \/ /\ response.kind = "return"
           /\ response.val # Loads(stdout).val
           /\ IsStr(ResultField(stdout))
           /\ \E t \in {ResultField(stdout).v, BraceSpan(ResultField(stdout).v)} :
                 IsJson(t) /\ response.val = Loads(t).val

\* C3: for every payload P (a JSON object with key `recommendations`), when
\* the agent exits 0 with stdout {"result": <JSON text of P>},
\* call_cursor_agent returns a value equal to P.
RoundTrips == {<<Dumps(Wrapper(Str(Dumps(P)))), P>> : P \in Payloads}

C3_RoundTrip ==
    \A c \in RoundTrips : AgentSucceeded /\ stdout = c[1] => response = Return(c[2])

C3_Witness ==
    /\ AgentSucceeded
    /\ stdout = Dumps(Wrapper(Str(Dumps(Dict(<< <<RECOMMENDATIONS, List(<<RuleItem, ScopedItem>>)>> >>)))))
    /\ response = Return(Dict(<< <<RECOMMENDATIONS, List(<<RuleItem, ScopedItem>>)>> >>))

\* a text that is not valid JSON while its first-`{`-to-last-`}` part is a
\* JSON object
Recoverable(text) == ~IsJson(text) /\ IsJsonObject(BraceSpan(text))

\* C4: when a candidate text (the raw stdout, or the `result` string of a
\* wrapper) is not valid JSON but its first-`{`-to-last-`}` substring is a
\* JSON object, call_cursor_agent returns exactly the object parsed from
\* that substring.
C4_SubstringRecovered ==
    /\ AgentSucceeded /\ Recoverable(stdout) =>
          response = Return(Loads(BraceSpan(stdout)).val)
    /\ AgentSucceeded /\ IsWrapperText(stdout) /\ IsStr(ResultField(stdout))
          /\ Recoverable(ResultField(stdout).v) =>
          response = Return(Loads(BraceSpan(ResultField(stdout).v)).val)

C4_Witness ==
    /\ AgentSucceeded
    /\ stdout = <<"x", COLON, LF>> \o Dumps(Dict(<< <<RECOMMENDATIONS, List(<<RuleItem>>)>> >>))
                    \o <<LF, "x">>
    /\ Recoverable(stdout)
    /\ response = Return(Dict(<< <<RECOMMENDATIONS, List(<<RuleItem>>)>> >>))

\* C5: for every stdout that is not valid JSON and whose
\* first-`{`-to-last-`}` substring is absent or not valid JSON,
\* call_cursor_agent returns None and raises nothing.
C5_UnparseableGivesNone ==
    AgentSucceeded /\ ~IsJson(stdout) /\ ~IsJson(BraceSpan(stdout)) =>
        response = Return(NoneVal)

C5_Witness ==
    /\ AgentSucceeded
    /\ stdout \in {<<"x", SPACE>>, <<RBRACE, LBRACE>>, <<LBRACE, "x">>}
    /\ response = Return(NoneVal)

\* C6: executable not found, timeout, non-zero exit code and any other
\* invocation fault each make call_cursor_agent return None, not raise; on a
\* non-zero exit code the result is None whatever stdout contains.
C6_InvocationFailureGivesNone ==
    /\ pc \in {"returned", "done"} /\ fault # "none" => response = Return(NoneVal)
    /\ pc = "returned" /\ returncode # 0 => response = Return(NoneVal)
    /\ fault # "none" => pc \in {"returned", "done"}

C6_Witness ==
    /\ pc = "returned"
    /\ returncode # 0
    /\ IsJsonObject(stdout)
    /\ HasKey(Loads(stdout).val, RECOMMENDATIONS)
    /\ response = Return(NoneVal)

\* C7: when the timeout expires the invocation ends with the timeout outcome
\* (no result), and once call_cursor_agent has returned no process started
\* by it is still running.
C7_TimeoutLeavesNoProcess ==
    /\ fault = "TimeoutExpired" => response = Return(NoneVal) /\ proc = "killed"
    /\ pc \in {"returned", "done", "idle"} => proc # "running"

C7_Witness ==
    pc = "returned" /\ fault = "TimeoutExpired" /\ spawns = 1 /\ proc = "killed"

\* the number of recommendations in what call_cursor_agent returned
ResponseCount ==
    IF /\ response.kind = "return" /\ IsDict(response.val)
       /\ IsList(DictGet(response.val, RECOMMENDATIONS, EmptyList))
    THEN Len(DictGet(response.val, RECOMMENDATIONS, EmptyList).v)
    ELSE 0

\* C8: one call of call_cursor_agent starts the agent process at most once,
\* one call of an analyze function calls call_cursor_agent at most once, on
\* every path, and the returned list holds the recommendations of that one
\* response only.
C8_NoRetry ==
    /\ spawns <= 1
    /\ agentCalls <= 1
    /\ spawns <= agentCalls
    /\ pc = "done" /\ result.kind = "return" /\ IsList(result.val) =>
          Len(result.val.v) = ResponseCount

C8_Witness ==
    pc = "done" /\ fault = "TimeoutExpired" /\ spawns = 1 /\ agentCalls = 1
        /\ result = Return(EmptyList)

\* C9: analyze_cross_project_patterns invokes the agent only if at least 2
\* projects of the mapping have a non-empty record list; otherwise it
\* returns an empty list without invoking the agent.
C9_TwoNonEmptyProjects ==
    op = "cross" /\ NonEmptyProjects(prompts_by_project) < 2 =>
        pc = "done" /\ agentCalls = 0 /\ result = Return(EmptyList)

\* C10: for every mapping with 0 or 1 project keys, whatever records it
\* holds, analyze_cross_project_patterns returns an empty list and does not
\* invoke the agent.
C10_FewerThanTwoKeys ==
    op = "cross" /\ Len(prompts_by_project) <= 1 =>
        pc = "done" /\ agentCalls = 0 /\ spawns = 0 /\ result = Return(EmptyList)

C10_Witness ==
    /\ op = "cross"
    /\ Len(prompts_by_project) = 1
    /\ Len(prompts_by_project[1][2]) = MaxPrompts
    /\ pc = "done"
    /\ result = Return(EmptyList)

-----------------------------------------------------------------------------
(* Tagging, short circuits and outcomes *)

\* the items of the list an analyze function returned
Returned == IF result.kind = "return" /\ IsList(result.val) THEN result.val.v ELSE <<>>

\* the agent's `recommendations` array in what call_cursor_agent returned
AgentItems ==
    IF /\ response.kind = "return" /\ IsDict(response.val)
       /\ IsList(DictGet(response.val, RECOMMENDATIONS, NoneVal))
    THEN GetKey(response.val, RECOMMENDATIONS).v
    ELSE <<>>

\* C11: every recommendation returned by analyze_project_prompts has scope
\* "project" and a project_path that is not null and equals the path given
\* to the call, also when the caller leaves project_path out and when the
\* agent's items carry a scope or project_path of their own.
C11_ProjectTagged ==
    op = "project" /\ pc = "done" =>
        \A i \in 1..Len(Returned) :
            /\ DictGet(Returned[i], SCOPE, NoneVal) = Str(<<"project">>)
            /\ DictGet(Returned[i], PROJECT_PATH, NoneVal) = project_path
            /\ DictGet(Returned[i], PROJECT_PATH, NoneVal) # NoneVal

\* C12: every recommendation returned by analyze_cross_project_patterns has
\* scope "global" and project_path null, whatever scope or project_path the
\* agent put on the item.
C12_GlobalTagged ==
    op = "cross" /\ pc = "done" =>
        \A i \in 1..Len(Returned) :
            /\ DictGet(Returned[i], SCOPE, NoneVal) = Str(<<"global">>)
            /\ HasKey(Returned[i], PROJECT_PATH)
            /\ GetKey(Returned[i], PROJECT_PATH) = NoneVal

C12_Witness ==
    /\ op = "cross" /\ pc = "done"
    /\ AgentItems = <<PathItem, ScopedItem>>
    /\ Len(Returned) = 2
    /\ GetKey(AgentItems[1], SCOPE) = Str(<<"project">>)
    /\ GetKey(AgentItems[1], PROJECT_PATH) = Str(<<"B">>)
    /\ GetKey(Returned[1], SCOPE) = Str(<<"global">>)
    /\ GetKey(Returned[1], PROJECT_PATH) = NoneVal

\* C13: analyze_project_prompts with an empty prompt set returns an empty
\* list, builds no request and does not invoke the agent.
C13_EmptyPromptSet ==
    op = "project" /\ prompts = <<>> =>
        /\ pc = "done"
        /\ result = Return(EmptyList)
        /\ request = NoRequest
        /\ agentCalls = 0
        /\ spawns = 0

C13_Witness ==
    /\ op = "project" /\ prompts = <<>> /\ project_path = PathA
    /\ pc = "done" /\ result = Return(EmptyList) /\ agentCalls = 0

\* C17: when stdout parses as a JSON object that has no `result` field,
\* call_cursor_agent returns that object itself, unchanged.
C17_BareObject ==
    AgentSucceeded /\ IsJsonObject(stdout) /\ ~HasKey(Loads(stdout).val, RESULT) =>
        response = Return(Loads(stdout).val)

C17_Witness ==
    /\ AgentSucceeded
    /\ stdout = Dumps(Dict(<< <<RECOMMENDATIONS, List(<<RuleItem>>)>> >>))
    /\ response = Return(Dict(<< <<RECOMMENDATIONS, List(<<RuleItem>>)>> >>))

\* the fields of a recommendation that come from the agent
AgentFields == {<<"type">>, <<"name">>, <<"content">>, <<"reasoning">>}

\* C18: when the agent's response is recovered and analyze_project_prompts
\* returns, its list has the length and the order of the agent's
\* `recommendations` array and each item's type, name, content and reasoning
\* are the agent's.
C18_SameItems ==
    /\ op = "project" /\ pc = "done" /\ result.kind = "return"
    /\ response.kind = "return" /\ IsDict(response.val)
    /\ IsList(DictGet(response.val, RECOMMENDATIONS, NoneVal))
    => /\ Len(Returned) = Len(AgentItems)
       /\ \A i \in 1..Len(Returned) : \A k \in AgentFields :
             /\ HasKey(Returned[i], k) = HasKey(AgentItems[i], k)
             /\ DictGet(Returned[i], k, NoneVal) = DictGet(AgentItems[i], k, NoneVal)

C18_Witness ==
    /\ op = "project" /\ pc = "done"
    /\ Len(prompts) = MaxPrompts
    /\ project_path = PathA
    /\ AgentItems = <<RuleItem>>
    /\ result = Return(List(<<Dict(<< <<<<"type">>, Str(<<"Rule">>)>>,
                                      <<SCOPE, Str(<<"project">>)>>,
                                      <<PROJECT_PATH, PathA>> >>)>>))

\* the failure of an invocation that has returned, "none" when it succeeded
FailureKinds ==
    {"AgentUnavailable", "AgentTimeout", "AgentExecutionFailed",
     "AgentInvocationError", "RecoveryFailed"}

FailureKind ==
    IF fault = "FileNotFoundError" THEN "AgentUnavailable"
    ELSE IF fault = "TimeoutExpired" THEN "AgentTimeout"
    ELSE IF fault # "none" THEN "AgentInvocationError"
    ELSE IF returncode # 0 THEN "AgentExecutionFailed"
    ELSE IF ~IsJson(stdout) /\ ~IsJson(BraceSpan(stdout)) THEN "RecoveryFailed"
    ELSE "none"

\* what call_cursor_agent returns on a failure of each kind
OutcomeOf(kind) ==
    CASE kind = "AgentUnavailable" -> Handle(Raise("FileNotFoundError"))
      [] kind = "AgentTimeout" -> Handle(Raise("TimeoutExpired"))
      [] kind = "AgentInvocationError" -> Handle(Raise("PermissionError"))
      [] kind = "AgentExecutionFailed" -> AfterRun(1, <<>>)
      [] kind = "RecoveryFailed" -> AfterRun(0, <<"x">>)

\* C19: the four invocation failures and the recovery failure each give a
\* distinct result, so what call_cursor_agent returned after one failure is
\* never what it returns after a failure of another kind.
C19_DistinctOutcomes ==
    pc = "returned" /\ FailureKind # "none" =>
        \A k \in FailureKinds \ {FailureKind} : response # OutcomeOf(k)

-----------------------------------------------------------------------------
(* The evidence of a cross-project request *)

\* the number of records project i of a mapping contributes
Taken(m, i) == IF Len(m[i][2]) < 10 THEN Len(m[i][2]) ELSE 10

RECURSIVE Before(_, _)
\* the number of records the projects in front of project i contribute
Before(m, i) == IF i = 1 THEN 0 ELSE Before(m, i - 1) + Taken(m, i - 1)

\* C16: the evidence of analyze_cross_project_patterns is, project after
\* project in the mapping's iteration order, the first min(10, n) records of
\* the project in their original order, and the request lists every
\* project's path with its total record count.
C16_PrefixSampling ==
    op = "cross" /\ request # NoRequest =>
        LET m == prompts_by_project
        IN /\ Len(request.evidence) = Before(m, Len(m)) + Taken(m, Len(m))
           /\ \A i \in 1..Len(m) : \A j \in 1..Taken(m, i) :
                 request.evidence[Before(m, i) + j] = m[i][2][j]
           /\ Len(request.summary) = Len(m)
           /\ \A i \in 1..Len(m) : request.summary[i] = <<m[i][1], Len(m[i][2])>>

C16_Witness ==
    /\ op = "cross" /\ pc = "call"
    /\ prompts_by_project = <<<<PathB, <<Rec1>>>>, <<PathA, LongList>>>>
    /\ Len(request.evidence) = 11
    /\ request.evidence[1] = Rec1
    /\ request.evidence[11] = LongList[10]
    /\ request.summary = << <<PathB, 1>>, <<PathA, 11>> >>

-----------------------------------------------------------------------------
(* The transcript *)

\* an entry's header carries number i and the timestamp of record rec, and
\* the text it shows starts record rec's prompt text
Shown(entry) == SubSeq(entry, Find(entry, LF) + 2, Len(entry) - 1)

IsEntryOf(entry, i, rec) ==
    /\ Len(entry) >= 5 + Len(rec.timestamp)
    /\ SubSeq(entry, 1, 5) = <<"Prompt", SPACE, ToString(i), SPACE, LPAREN>>
    /\ SubSeq(entry, 6, 5 + Len(rec.timestamp)) = rec.timestamp
    /\ Len(Shown(entry)) <= Len(rec.prompt_text)
    /\ Shown(entry) = SubSeq(rec.prompt_text, 1, Len(Shown(entry)))

IsSummary(line) == Len(line) >= 2 /\ line[1] = LF /\ line[2] = "..."

SummaryCount(line) == line[6]

\* the number of entries a transcript of len records under maximum n has
EntryCount(len, n) == IF len > n THEN n ELSE len

\* C14: for a record sequence longer than the maximum N >= 0 the transcript
\* has exactly N entries, the first N records in order numbered 1..N, then
\* exactly one omission summary whose count is len(records) - N; for a
\* sequence of at most N records it has one entry per record and no summary.
C14_EntriesAndSummary ==
    op = "format" /\ pc = "done" =>
        LET len == Len(prompts)
            n == EntryCount(len, max_prompts)
        IN /\ Len(formatted) = IF len > max_prompts THEN n + 1 ELSE n
           /\ \A i \in 1..n : IsEntryOf(formatted[i], i, prompts[i]) /\ ~IsSummary(formatted[i])
           /\ len > max_prompts =>
                 /\ IsSummary(formatted[n + 1])
                 /\ SummaryCount(formatted[n + 1]) = ToString(len - max_prompts)
           /\ result = Return(Str(Join(formatted, LF)))

C14_Witness ==
    /\ op = "format" /\ pc = "done"
    /\ max_prompts = MaxPrompts
    /\ Len(prompts) = MaxPrompts + 1
    /\ prompts[1].timestamp = <<"3">> /\ prompts[MaxPrompts].timestamp = <<"2">>
    /\ Len(formatted) = MaxPrompts + 1
    /\ formatted[MaxPrompts + 1] = <<LF, "...", SPACE, "and", SPACE, "1", SPACE, "more", SPACE, "prompts">>

\* C15: the prompt text each entry of a transcript shows is the first
\* min(500, len(prompt_text)) characters of its record's prompt_text, so no
\* entry carries more than 500 characters of prompt text.
C15_TextBudget ==
    op = "format" /\ pc = "done" =>
        \A i \in 1..EntryCount(Len(prompts), max_prompts) :
            LET text == prompts[i].prompt_text
            IN /\ Shown(formatted[i]) = SubSeq(text, 1, IF Len(text) < 500 THEN Len(text) ELSE 500)
               /\ Len(Shown(formatted[i])) <= 500

C15_Witness ==
    /\ op = "format" /\ pc = "done"
    /\ Len(formatted) >= 2
    /\ Len(prompts[1].prompt_text) = 501
    /\ Len(prompts[2].prompt_text) = 500
    /\ Len(Shown(formatted[1])) = 500
    /\ Shown(formatted[1])[500] = "b"
    /\ Shown(formatted[2]) = prompts[2].prompt_text

-----------------------------------------------------------------------------
(* The deeplink *)

\* C20: for every type, name and content the URL generate_deeplink returns
\* is at most 8000 characters long.
C20_UrlWithinLimit ==
    op = "deeplink" /\ pc = "done" => Len(result.val.v) <= 8000

-----------------------------------------------------------------------------
(* The instruction *)

HasSymbol(text, sym) == \E i \in 1..Len(text) : text[i] = sym

\* C21: the transcript in the cross-project request has exactly min(50, S)
\* entries, S being the sum over the projects of min(10, record count); they
\* are the first entries of the concatenated samples, so the samples of the
\* projects after the fiftieth record are absent; the omission line, with
\* count S - 50, is there exactly when S > 50.
C21_CrossTranscript ==
    op = "cross" /\ request # NoRequest =>
        LET m == prompts_by_project
            S == Before(m, Len(m)) + Taken(m, Len(m))
            n == IF S < 50 THEN S ELSE 50
            all == request.evidence
        IN /\ Len(formatted) = IF S > 50 THEN n + 1 ELSE n
           /\ \A i \in 1..n : IsEntryOf(formatted[i], i, all[i]) /\ ~IsSummary(formatted[i])
           /\ \A k \in (n + 1)..S :
                 (\A i \in 1..n : all[i] # all[k]) =>
                     \A i \in 1..n : ~IsEntryOf(formatted[i], i, all[k])
           /\ S > 50 =>
                 /\ IsSummary(formatted[n + 1])
                 /\ SummaryCount(formatted[n + 1]) = ToString(S - 50)
           /\ Occurs(Join(formatted, LF), request.prompt)

C21_Witness ==
    /\ op = "cross" /\ pc = "call"
    /\ Len(prompts_by_project) = 6
    /\ \A i \in 1..6 : Len(prompts_by_project[i][2]) = 11
    /\ Len(request.evidence) = 60
    /\ request.evidence[51].timestamp = <<"F", "1">>
    /\ Len(formatted) = 51
    /\ SubSeq(formatted[50], 1, 8) = <<"Prompt", SPACE, "50", SPACE, LPAREN, "E", "10", RPAREN>>
    /\ formatted[51] = <<LF, "...", SPACE, "and", SPACE, "10", SPACE, "more", SPACE, "prompts">>
    /\ Occurs(<<LPAREN, "E", "10", RPAREN>>, request.prompt)
    /\ ~Occurs(<<LPAREN, "F">>, request.prompt)

\* the instruction a call has built, and whether it was built for a project
\* that has a path
Instruction == IF op = "prompt" THEN result.val.v ELSE request.prompt

\* C22: generate_recommendations_prompt embeds the project line naming
\* project_path only when the scope is "project" and project_path is
\* non-empty, the cross-project note only when the scope is "global", never
\* both, and nothing for scope "project" without a path; in every case the
\* instruction holds the formatted transcript verbatim and ends with the
\* JSON-only directive.
C22_ScopeContext ==
    (op = "prompt" /\ pc = "done") \/ (op = "project" /\ request # NoRequest) =>
        LET text == Instruction
            named == prompt_scope = "project" /\ project_path \notin {NoneVal, Str(<<>>)}
        IN /\ HasSymbol(text, PROJECT_CONTEXT) <=> named
           /\ named => Occurs(<<LF, LF, PROJECT_CONTEXT>> \o project_path.v \o <<LF, LF>>, text)
           /\ HasSymbol(text, GLOBAL_NOTE) <=> prompt_scope = "global"
           /\ ~(HasSymbol(text, PROJECT_CONTEXT) /\ HasSymbol(text, GLOBAL_NOTE))
           /\ Occurs(Transcript(prompts, 50), text)
           /\ formatted = Formatted(prompts, 50)
           /\ text[Len(text)] = JSON_ONLY

C22_Witness ==
    /\ op = "prompt" /\ pc = "done"
    /\ prompt_scope = "project" /\ project_path = PathA /\ prompts = <<Rec1>>
    /\ result = Return(Str(<<INTRO, LF, LF, PROJECT_CONTEXT, "A", LF, LF,
                             "Prompt", SPACE, "1", SPACE, LPAREN, "1", RPAREN, COLON, LF, "x", LF,
                             LF, LF, GUIDANCE, LF, LF, JSON_ONLY>>))

-----------------------------------------------------------------------------
(* The hook files *)

\* the last call returned (True, ...)
Succeeded == result.kind = "return" /\ result.val.t = "tuple" /\ result.val.v[1] = TRUE
Refused == result.kind = "return" /\ result.val.t = "tuple" /\ result.val.v[1] = FALSE

\* the file holds JSON, and what it holds
IsValidFile(file) == file.exists /\ Loads(file.text).ok
ConfigOf(file) == Loads(file.text).val

\* the hook entries of a configuration, in the file's order
EntriesOf(config) ==
    IF IsDict(config) /\ HasKey(config, HOOKS) /\ IsList(GetKey(config, HOOKS))
    THEN GetKey(config, HOOKS).v
    ELSE <<>>

\* the entry's `hook` is the script's path; the entry's `hook` contains it
IsOwnEntry(h) == IsDict(h) /\ HasKey(h, HOOK) /\ GetKey(h, HOOK) = Str(HookScriptPath)
ContainsPath(h) ==
    IsDict(h) /\ HasKey(h, HOOK) /\ HasSymbol(PyStr(GetKey(h, HOOK)), HookScriptPath[1])

\* the entries that do not contain the script's path, in order
OtherEntries(file) == SelectSeq(EntriesOf(ConfigOf(file)), LAMBDA h : ~ContainsPath(h))

\* the top-level members other than `hooks`, in order
OtherKeys(config) ==
    IF IsDict(config) THEN SelectSeq(config.v, LAMBDA pair : pair[1] # HOOKS) ELSE <<>>

\* C23: install_hooks with overwrite=False, when hooks.json already holds an
\* entry whose `hook` equals the script's path, returns (False, message) and
\* leaves hooks.json and the hook script as they were.
C23_RegisteredRefused ==
    /\ op = "install" /\ ~overwrite
    /\ IsValidFile(json_before)
    /\ \E i \in 1..Len(EntriesOf(ConfigOf(json_before))) :
          IsOwnEntry(EntriesOf(ConfigOf(json_before))[i])
    => /\ Refused
       /\ hooks_json = json_before
       /\ hook_script = script_before

C23_Witness ==
    /\ op = "install" /\ ~overwrite
    /\ json_before = File(DumpsIndent(Dict(<< <<HOOKS, List(<<OtherEntry, OwnEntry>>)>> >>), 0), "644")
    /\ script_before = NoFile
    /\ result = Return(Tuple(FALSE, "Hook already registered"))
    /\ hooks_json = json_before
    /\ hook_script = NoFile

C25_UninstallCleans ==
    op = "uninstall" /\ Succeeded =>
        /\ ~hook_script.exists
        /\ hooks_json.exists =>
              /\ IsValidFile(hooks_json)
              /\ \A i \in 1..Len(EntriesOf(ConfigOf(hooks_json))) :
                    ~ContainsPath(EntriesOf(ConfigOf(hooks_json))[i])
        /\ IsValidFile(json_before) /\ OtherEntries(json_before) # <<>> =>
              /\ hooks_json.exists
              /\ EntriesOf(ConfigOf(hooks_json)) = OtherEntries(json_before)
        /\ ~hooks_json.exists <=>
              \/ ~json_before.exists
              \/ ~IsValidFile(json_before)
              \/ OtherEntries(json_before) = <<>>

C25_Witness ==
    /\ op = "uninstall" /\ Succeeded
    /\ script_before = File(HookScriptContent, "755")
    /\ ConfigOf(json_before) =
         Dict(<< <<HOOKS, List(<<OtherEntry>> \o GetKey(NewHooksConfig, HOOKS).v)>> >>)
    /\ hooks_json = File(DumpsIndent(Dict(<< <<HOOKS, List(<<OtherEntry>>)>> >>), 0), "644")
    /\ ~hook_script.exists

====
